---- MODULE Spec2Model ----
(***************************************************************************)
(* Model of the product-matching core of backend/scraper.py:               *)
(* extract_key_identifiers (title -> identifier tags) and match_products   *)
(* (conflict rules, scorer, greedy assignment, unified catalog builder).   *)
(*                                                                         *)
(* Conventions.  Titles and tags are strings, handled character by         *)
(* character as the regular expressions of the source do.  Python's None   *)
(* and a price of 0 are both written None (0): the source reads a price    *)
(* only through its truth value or after such a test.  Similarities and    *)
(* scores are kept in hundredths (0.9 is 90, the 0.5 bonus is 50).         *)
(* Sequence indices are 1-based; index 0 stands for Python's -1 / "no      *)
(* index".  A link that is None is written "".  Each listing of a catalog  *)
(* has a link of its own, which identifies it in the records.              *)
(* An exception that leaves match_products is the control state "error".   *)
(* Where the source takes list(s)[0] of a set, the element is chosen per   *)
(* run (list_first): the iteration order of a set of strings depends on    *)
(* the interpreter's hash seed.                                            *)
(***************************************************************************)
EXTENDS Integers, Sequences, FiniteSets, TLC

(* ------------------------------------------------------------------ *)
(* Characters and the primitives of Python's re that the source uses.  *)
(* ------------------------------------------------------------------ *)

CharAt(s, i) == IF i >= 1 /\ i <= Len(s) THEN SubSeq(s, i, i) ELSE ""

LowerLetters == "abcdefghijklmnopqrstuvwxyz"

UpperLetters == "ABCDEFGHIJKLMNOPQRSTUVWXYZ"

LowerSet == { SubSeq(LowerLetters, k, k) : k \in 1..26 }

UpperSet == { SubSeq(UpperLetters, k, k) : k \in 1..26 }

DigitSet == {"0", "1", "2", "3", "4", "5", "6", "7", "8", "9"}

\* \s of Python's re, restricted to ASCII
SpaceSet == {" ", "\t", "\n", "\r", "\f"}

IsDigit(c) == c \in DigitSet

IsAlpha(c) == c \in LowerSet \/ c \in UpperSet

IsSpace(c) == c \in SpaceSet

\* \w of Python's re, restricted to ASCII
IsWordChar(c) == IsAlpha(c) \/ IsDigit(c) \/ c = "_"

lower_char(c) ==
    IF c \in UpperSet
    THEN SubSeq(LowerLetters, CHOOSE k \in 1..26 : SubSeq(UpperLetters, k, k) = c,
                              CHOOSE k \in 1..26 : SubSeq(UpperLetters, k, k) = c)
    ELSE c

RECURSIVE lower_from(_, _)
lower_from(s, i) == IF i > Len(s) THEN "" ELSE lower_char(CharAt(s, i)) \o lower_from(s, i + 1)

\* str.lower()
lower(s) == lower_from(s, 1)

\* s[i-1:].startswith(lit), i 1-based
StartsAt(s, i, lit) ==
    /\ i >= 1
    /\ i + Len(lit) - 1 <= Len(s)
    /\ SubSeq(s, i, i + Len(lit) - 1) = lit

\* lit in s
Contains(s, lit) == \E i \in 1..(Len(s) + 1) : StartsAt(s, i, lit)

startswith(s, lit) == StartsAt(s, 1, lit)

endswith(s, lit) == Len(s) >= Len(lit) /\ StartsAt(s, Len(s) - Len(lit) + 1, lit)

\* \b between the characters p-1 and p (p in 1..Len(s)+1)
Boundary(s, p) == IsWordChar(CharAt(s, p - 1)) # IsWordChar(CharAt(s, p))

\* re.search(r'\b' + lit + r'\b', s) is not None
WordSearch(s, lit) ==
    \E i \in 1..Len(s) : StartsAt(s, i, lit) /\ Boundary(s, i) /\ Boundary(s, i + Len(lit))

RECURSIVE DigitsEnd(_, _)
\* the index after the greedy \d* that starts at i
DigitsEnd(s, i) == IF IsDigit(CharAt(s, i)) THEN DigitsEnd(s, i + 1) ELSE i

RECURSIVE SkipSpaces(_, _)
\* the index after the greedy \s* that starts at i
SkipSpaces(s, i) == IF IsSpace(CharAt(s, i)) THEN SkipSpaces(s, i + 1) ELSE i

RECURSIVE WordEnd(_, _)
\* the index after the greedy \w* that starts at i
WordEnd(s, i) == IF IsWordChar(CharAt(s, i)) THEN WordEnd(s, i + 1) ELSE i

DigitVal(c) == CHOOSE d \in 0..9 : ToString(d) = c

RECURSIVE StrToIntAcc(_, _, _)
StrToIntAcc(s, i, acc) ==
    IF i > Len(s) THEN acc ELSE StrToIntAcc(s, i + 1, 10 * acc + DigitVal(CharAt(s, i)))

\* int(s) for a string of decimal digits
StrToInt(s) == StrToIntAcc(s, 1, 0)

IsAllDigits(s) == Len(s) >= 1 /\ \A i \in 1..Len(s) : IsDigit(CharAt(s, i))

RECURSIVE RemoveSpacesFrom(_, _)
RemoveSpacesFrom(s, i) ==
    IF i > Len(s) THEN ""
    ELSE (IF CharAt(s, i) = " " THEN "" ELSE CharAt(s, i)) \o RemoveSpacesFrom(s, i + 1)

\* s.replace(' ', '')
RemoveSpaces(s) == RemoveSpacesFrom(s, 1)

\* the first literal of the alternation alts (a sequence) that matches at k,
\* followed by \b when needB; 0 when none does
AltAt(s, k, alts, needB) ==
    LET hits == { n \in 1..Len(alts) :
                    StartsAt(s, k, alts[n]) /\ (needB => Boundary(s, k + Len(alts[n]))) }
    IN  IF hits = {} THEN 0 ELSE CHOOSE n \in hits : \A m \in hits : n <= m

\* (\d+)\s*(?:alts)[\b] matched at i: the index after the match, 0 when it fails
NumUnitEnd(s, i, alts, needB) ==
    IF ~IsDigit(CharAt(s, i)) THEN 0
    ELSE LET k == SkipSpaces(s, DigitsEnd(s, i))
             n == AltAt(s, k, alts, needB)
         IN  IF n = 0 THEN 0 ELSE k + Len(alts[n])

\* re.search of (\d+)\s*(?:alts)[\b]: the start of the leftmost match from pos on, 0 when none
NumUnitSearch(s, pos, alts, needB) ==
    LET starts == { i \in pos..Len(s) : NumUnitEnd(s, i, alts, needB) # 0 }
    IN  IF starts = {} THEN 0 ELSE CHOOSE i \in starts : \A j \in starts : i <= j

Min(a, b) == IF a <= b THEN a ELSE b

Max(a, b) == IF a >= b THEN a ELSE b

Abs(a) == IF a >= 0 THEN a ELSE 0 - a

(* ------------------------------------------------------------------ *)
(* extract_key_identifiers                                             *)
(* ------------------------------------------------------------------ *)

brands ==
    {"apple", "iphone", "samsung", "oneplus", "xiaomi", "redmi", "realme",
     "oppo", "vivo", "poco", "motorola", "google", "pixel", "nothing",
     "mi", "lg", "sony", "toshiba", "tcl", "panasonic", "philips", "haier",
     "hisense", "vu", "acer", "acerpure", "kenstar", "onida", "iffalcon",
     "hp", "dell", "lenovo", "asus", "msi", "macbook", "thinkpad",
     "boat", "jbl", "bose", "sennheiser", "noise", "zebronics", "skullcandy",
     "prestige", "bajaj", "butterfly", "preethi", "pigeon",
     "havells", "morphy richards", "usha", "crompton", "kent", "maharaja",
     "sujata", "bosch", "wonderchef", "kenwood", "inalsa", "hamilton"}

\* for brand in brands: if brand in title_lower
brand_tags(t) == { b \in brands : Contains(t, b) }

size_units == <<"inch", "cm", "\"", "'">>

\* (\d{2,3})\s*(?:inch|cm|"|') tried at i: <<number of digits taken, unit index>>, <<0, 0>> on failure
SizeMatchAt(t, i) ==
    LET run == DigitsEnd(t, i) - i
        n   == Min(3, run)
        u   == AltAt(t, SkipSpaces(t, i + n), size_units, FALSE)
    IN  IF n >= 2 /\ u # 0 THEN <<n, u>> ELSE <<0, 0>>

cm_to_inch_keys == {80, 108, 109, 126, 138, 139, 164, 189}

cm_to_inch(v) ==
    CASE v = 80 -> 32
      [] v = 108 -> 43
      [] v = 109 -> 43
      [] v = 126 -> 50
      [] v = 138 -> 55
      [] v = 139 -> 55
      [] v = 164 -> 65
      [] v = 189 -> 75

\* round(val / 2.54): the nearest integer, half to even (no 2- or 3-digit val is an
\* exact tie: that needs 100 * val = 127 * (2q + 1), an odd number)
round_div_254(val) ==
    LET q == (val * 100) \div 254
        r == (val * 100) % 254
    IN  IF 2 * r > 254 THEN q + 1
        ELSE IF 2 * r < 254 THEN q
        ELSE IF q % 2 = 0 THEN q ELSE q + 1

size_tags(t) ==
    LET starts == { i \in 1..Len(t) : SizeMatchAt(t, i)[1] # 0 }
    IN  IF starts = {} THEN {}
        ELSE LET i    == CHOOSE x \in starts : \A y \in starts : x <= y
                 m    == SizeMatchAt(t, i)
                 val  == StrToInt(SubSeq(t, i, i + m[1] - 1))
                 inch == IF size_units[m[2]] = "cm"
                         THEN (IF val \in cm_to_inch_keys THEN cm_to_inch(val) ELSE round_div_254(val))
                         ELSE val
             IN  { ToString(inch) \o "inch" }

storage_units == <<"gb", "tb">>

\* one match of (\d+)\s*(gb|tb), from i to e - 1: val, unit, token, and the window
\* title_lower[max(0, start - 12):min(len(title_lower), end + 12)]
storage_match_at(t, i, e) ==
    [val    |-> StrToInt(SubSeq(t, i, DigitsEnd(t, i) - 1)),
     unit   |-> SubSeq(t, e - 2, e - 1),
     token  |-> ToString(StrToInt(SubSeq(t, i, DigitsEnd(t, i) - 1))) \o SubSeq(t, e - 2, e - 1),
     window |-> SubSeq(t, Max(1, i - 12), Min(Len(t), e + 11))]

RECURSIVE storage_matches_from(_, _)
\* the matches of re.finditer(r'(\d+)\s*(gb|tb)', title_lower), in order, from the one
\* that starts at i on (i = 0: no further match)
storage_matches_from(t, i) ==
    IF i = 0 THEN <<>>
    ELSE <<storage_match_at(t, i, NumUnitEnd(t, i, storage_units, FALSE))>>
         \o storage_matches_from(t, NumUnitSearch(t, NumUnitEnd(t, i, storage_units, FALSE),
                                                 storage_units, FALSE))

storage_matches(t) == storage_matches_from(t, NumUnitSearch(t, 1, storage_units, FALSE))

size_value(v, u) == IF u = "tb" THEN v * 1024 ELSE v

\* the match goes to storage_candidates (the elif and the else branch)
IsStorageCandidate(m) == ~Contains(m.window, "ram")

\* the elif branch: 'rom' in window or 'storage' in window
IsExplicitStorage(m) ==
    ~Contains(m.window, "ram") /\ (Contains(m.window, "rom") \/ Contains(m.window, "storage"))

\* max(storage_candidates, key=...): the first candidate of maximal size_value
best_candidate(ms) ==
    ms[CHOOSE x \in 1..Len(ms) :
         /\ IsStorageCandidate(ms[x])
         /\ \A y \in 1..Len(ms) :
              IsStorageCandidate(ms[y]) =>
                /\ size_value(ms[y].val, ms[y].unit) <= size_value(ms[x].val, ms[x].unit)
                /\ y < x => size_value(ms[y].val, ms[y].unit) < size_value(ms[x].val, ms[x].unit)]

\* the tags the loop over the matches adds: token, ram_token, storage_token
storage_loop_tags(ms) ==
    { ms[n].token : n \in 1..Len(ms) }
    \cup { "ram_" \o ms[n].token : n \in { k \in 1..Len(ms) : Contains(ms[k].window, "ram") } }
    \cup { "storage_" \o ms[n].token : n \in { k \in 1..Len(ms) : IsExplicitStorage(ms[k]) } }

\* "If no explicit storage identified, assume the largest size is storage": the
\* identifiers at that point are the brand tags, the size tag and the loop's tags
storage_fallback_tags(t) ==
    IF /\ \E n \in 1..Len(storage_matches(t)) : IsStorageCandidate(storage_matches(t)[n])
       /\ ~(\E x \in brand_tags(t) \cup size_tags(t) \cup storage_loop_tags(storage_matches(t)) :
              startswith(x, "storage_"))
    THEN { "storage_" \o best_candidate(storage_matches(t)).token }
    ELSE {}

\* the tags of the storage/RAM block
storage_tags(t) == storage_loop_tags(storage_matches(t)) \cup storage_fallback_tags(t)

res_map ==
    { <<"4k", "4k">>, <<"uhd", "4k">>, <<"ultra hd", "4k">>, <<"2160p", "4k">>,
      <<"full hd", "fhd">>, <<"fhd", "fhd">>, <<"1080p", "fhd">>,
      <<"hd ready", "hd">>, <<"720p", "hd">> }

\* for res_str, res_id in res_map.items(): if res_str in title_lower
mapped_resolutions(t) == { r[2] : r \in { x \in res_map : Contains(t, x[1]) } }

\* the resolution block: the mapped tags, and 'hd' for a bare word "hd" when none of
\* 'hd', 'fhd', '4k' is among the identifiers collected so far
resolution_tags(t) ==
    mapped_resolutions(t) \cup
    (IF /\ WordSearch(t, "hd")
        /\ {"hd", "fhd", "4k"} \cap (brand_tags(t) \cup size_tags(t) \cup storage_tags(t)
                                     \cup mapped_resolutions(t)) = {}
     THEN {"hd"} ELSE {})

panels == {"qled", "oled", "led", "lcd"}

panel_tags(t) == { p \in panels : Contains(t, p) }

\* 'prefix' + group(1) of the first match of (\d+)\s*(?:alts)\b
first_number_tag(t, alts, prefix) ==
    LET i == NumUnitSearch(t, 1, alts, TRUE)
    IN  IF i = 0 THEN {} ELSE { prefix \o SubSeq(t, i, DigitsEnd(t, i) - 1) }

watt_tags(t) == first_number_tag(t, <<"watt", "w">>, "watt_")

appliance_models ==
    {"apex", "iris", "popular", "deluxe", "teon", "nakshatra", "omega", "manttra",
     "viva", "daily", "avance",
     "gx", "twister", "classic", "bravo", "platini",
     "jet", "hero", "matchless", "desire", "splendid",
     "zodiac", "blue leaf", "eco", "peppy",
     "juicer", "blender", "chopper", "grinder", "mixer"}

appmodel_tags(t) == { "appmodel_" \o m : m \in { x \in appliance_models : WordSearch(t, x) } }

jar_tags(t) == first_number_tag(t, <<"jar", "jars">>, "jars_")

colors ==
    {"black", "white", "silver", "gold", "blue", "red", "green", "yellow", "pink",
     "purple", "orange", "grey", "gray", "brown", "multicolor"}

color_tags(t) == { "color_" \o c : c \in { x \in colors : WordSearch(t, x) } }

\* \b<word>\s*of\s*(\d+)\b matched at i: the index after the match, 0 when it fails
PackOfEnd(t, i, word) ==
    IF ~(StartsAt(t, i, word) /\ Boundary(t, i)) THEN 0
    ELSE LET k == SkipSpaces(t, i + Len(word))
         IN  IF ~StartsAt(t, k, "of") THEN 0
             ELSE LET d == SkipSpaces(t, k + 2)
                      e == DigitsEnd(t, d)
                  IN  IF e > d /\ Boundary(t, e) THEN e ELSE 0

\* (\d+)\s*piece(?:s)?\b matched at i: the index after the match, 0 when it fails
PieceEnd(t, i) ==
    IF ~IsDigit(CharAt(t, i)) THEN 0
    ELSE LET k == SkipSpaces(t, DigitsEnd(t, i))
         IN  IF ~StartsAt(t, k, "piece") THEN 0
             ELSE IF CharAt(t, k + 5) = "s" /\ Boundary(t, k + 6) THEN k + 6
             ELSE IF Boundary(t, k + 5) THEN k + 5
             ELSE 0

qty_units == <<"kg", "gram", "gm", "ml", "ltr", "litre", "pounds", "lbs">>

\* the index after the match of qty_patterns[n] tried at i, 0 when it fails
QtyEnd(t, i, n) ==
    CASE n = 1 -> PackOfEnd(t, i, "pack")
      [] n = 2 -> PackOfEnd(t, i, "set")
      [] n = 3 -> NumUnitEnd(t, i, qty_units, TRUE)
      [] n = 4 -> PieceEnd(t, i)

\* 'unit_' + match.group(0).replace(' ', '') for every pattern of qty_patterns that matches
unit_tags(t) ==
    LET starts(n) == { i \in 1..Len(t) : QtyEnd(t, i, n) # 0 }
        first(n)  == CHOOSE i \in starts(n) : \A j \in starts(n) : i <= j
    IN  { "unit_" \o RemoveSpaces(SubSeq(t, first(n), QtyEnd(t, first(n), n) - 1)) :
            n \in { m \in 1..4 : starts(m) # {} } }

IsSplitChar(c) == IsSpace(c) \/ c = "/"

RECURSIVE split_tokens(_, _, _)
\* re.split(r'[\s/]+', title_lower): the pieces from position i on, cur being the piece
\* under construction (empty pieces are dropped: they fail the length test below)
split_tokens(t, i, cur) ==
    IF i > Len(t) THEN (IF cur = "" THEN <<>> ELSE <<cur>>)
    ELSE IF IsSplitChar(CharAt(t, i))
         THEN (IF cur = "" THEN <<>> ELSE <<cur>>) \o split_tokens(t, i + 1, "")
         ELSE split_tokens(t, i + 1, cur \o CharAt(t, i))

StripSet == {"(", ")", ",", ".", "[", "]", "\"", "'"}

RECURSIVE lstrip(_)
lstrip(s) == IF Len(s) > 0 /\ CharAt(s, 1) \in StripSet THEN lstrip(SubSeq(s, 2, Len(s))) ELSE s

RECURSIVE rstrip(_)
rstrip(s) == IF Len(s) > 0 /\ CharAt(s, Len(s)) \in StripSet THEN rstrip(SubSeq(s, 1, Len(s) - 1)) ELSE s

\* token.strip('(),.[]"\'')
strip(s) == rstrip(lstrip(s))

RECURSIVE alnum_only(_, _)
\* re.sub(r'[^a-z0-9]', '', s)
alnum_only(s, i) ==
    IF i > Len(s) THEN ""
    ELSE (IF CharAt(s, i) \in LowerSet \/ IsDigit(CharAt(s, i)) THEN CharAt(s, i) ELSE "")
         \o alnum_only(s, i + 1)

model_stoplist == {"pack", "inch", "with", "from", "best", "india", "500ml", "gen1", "gen2", "gen3"}

model_tags(t) ==
    LET tokens == split_tokens(t, 1, "")
        clean(n) == strip(tokens[n])
        ok(n) == /\ Len(clean(n)) >= 4
                 /\ \E i \in 1..Len(clean(n)) : IsDigit(CharAt(clean(n), i))
                 /\ \E i \in 1..Len(clean(n)) : IsAlpha(CharAt(clean(n), i))
                 /\ Len(alnum_only(clean(n), 1)) >= 4
                 /\ alnum_only(clean(n), 1) \notin model_stoplist
    IN  { "model_" \o alnum_only(clean(n), 1) : n \in { m \in 1..Len(tokens) : ok(m) } }

extractor_variants ==
    {"pro", "max", "plus", "ultra", "mini", "air", "lite", "fe", "promax", "v2", "gen", "generation"}

variant_tags(t) ==
    LET hit == { v \in extractor_variants : WordSearch(t, v) }
    IN  hit \cup (IF "promax" \in hit THEN {"pro", "max"} ELSE {})

\* the series patterns, in order: \b<w1>\s*<w2>\b (w2 empty for a one-word pattern)
series_patterns ==
    << <<"fx", "">>, <<"x", "series">>, <<"a", "series">>, <<"f", "series">>,
       <<"g", "series">>, <<"fire", "tv">>, <<"google", "tv">>,
       <<"android", "tv">>, <<"webos", "">>, <<"tizen", "">>,
       <<"macbook", "air">>, <<"macbook", "pro">>, <<"thinkpad", "">>,
       <<"zenbook", "">>, <<"vivobook", "">>, <<"rog", "">>, <<"tuf", "">>, <<"aliware", "">>,
       <<"inspiron", "">>, <<"vostro", "">>, <<"latitude", "">>, <<"xps", "">>,
       <<"ideapad", "">>, <<"legion", "">>, <<"yoga", "">>, <<"pavilion", "">>,
       <<"envy", "">>, <<"spectre", "">>, <<"omen", "">> >>

\* the index after the match of series pattern p tried at i, 0 when it fails
SeriesEnd(t, i, p) ==
    IF ~(StartsAt(t, i, p[1]) /\ Boundary(t, i)) THEN 0
    ELSE IF p[2] = ""
         THEN (IF Boundary(t, i + Len(p[1])) THEN i + Len(p[1]) ELSE 0)
         ELSE LET k == SkipSpaces(t, i + Len(p[1]))
              IN  IF StartsAt(t, k, p[2]) /\ Boundary(t, k + Len(p[2])) THEN k + Len(p[2]) ELSE 0

\* the loop over series_patterns has no break: every pattern that matches adds its tag
series_tags(t) ==
    LET starts(n) == { i \in 1..Len(t) : SeriesEnd(t, i, series_patterns[n]) # 0 }
        first(n)  == CHOOSE i \in starts(n) : \A j \in starts(n) : i <= j
    IN  { "series_" \o RemoveSpaces(SubSeq(t, first(n), SeriesEnd(t, first(n), series_patterns[n]) - 1)) :
            n \in { m \in 1..Len(series_patterns) : starts(m) # {} } }

\* <lit>[\s*](\d+)(?:\s*(alts))? matched at i (the first \s* only when sp): the index
\* after the match, 0 when it fails
LitNumOptEnd(t, i, lit, sp, alts) ==
    IF ~StartsAt(t, i, lit) THEN 0
    ELSE LET d == IF sp THEN SkipSpaces(t, i + Len(lit)) ELSE i + Len(lit)
             e == DigitsEnd(t, d)
             k == SkipSpaces(t, e)
             n == AltAt(t, k, alts, FALSE)
         IN  IF e = d THEN 0
             ELSE IF n # 0 THEN k + Len(alts[n])
             ELSE e

\* <lit>\s*(\w+) matched at i: the index after the match, 0 when it fails
LitWordEnd(t, i, lit) ==
    IF ~StartsAt(t, i, lit) THEN 0
    ELSE LET w == SkipSpaces(t, i + Len(lit))
             e == WordEnd(t, w)
         IN  IF e > w THEN e
             \* \s* gives characters back only to let \w+ start, and a space is no \w
             ELSE 0

\* the index after the match of model_patterns[n] tried at i, 0 when it fails
PhoneEnd(t, i, n) ==
    CASE n = 1 -> LitNumOptEnd(t, i, "iphone", TRUE, <<"pro", "plus", "max">>)
      [] n = 2 -> LitNumOptEnd(t, i, "s", FALSE, <<"ultra", "plus", "+">>)
      [] n = 3 -> LitWordEnd(t, i, "galaxy")
      [] n = 4 -> NumUnitEnd(t, i, <<"pro">>, FALSE)
      [] n = 5 -> LitWordEnd(t, i, "nord")

phone_tags(t) ==
    LET starts(n) == { i \in 1..Len(t) : PhoneEnd(t, i, n) # 0 }
        first(n)  == CHOOSE i \in starts(n) : \A j \in starts(n) : i <= j
    IN  { RemoveSpaces(SubSeq(t, first(n), PhoneEnd(t, first(n), n) - 1)) :
            n \in { m \in 1..5 : starts(m) # {} } }

\* the identifiers of a lower-cased, non-empty title: the tags of every block
extract_lower(t) ==
    brand_tags(t) \cup size_tags(t) \cup storage_tags(t) \cup resolution_tags(t)
    \cup panel_tags(t) \cup watt_tags(t) \cup appmodel_tags(t) \cup jar_tags(t)
    \cup color_tags(t) \cup unit_tags(t) \cup model_tags(t) \cup variant_tags(t)
    \cup series_tags(t) \cup phone_tags(t)

extract_key_identifiers(title) == IF title = "" THEN {} ELSE extract_lower(lower(title))

(* ------------------------------------------------------------------ *)
(* match_products: conflict rules, scorer, confidence gates            *)
(* ------------------------------------------------------------------ *)

None == 0

\* {x for x in identifiers if x.startswith(prefix)}
with_prefix(identifiers, prefix) == { x \in identifiers : startswith(x, prefix) }

series_conflict(amz_identifiers, fk_identifiers) ==
    LET amz_series == with_prefix(amz_identifiers, "series_")
        fk_series  == with_prefix(fk_identifiers, "series_")
    IN  amz_series # {} /\ fk_series # {} /\ amz_series # fk_series

res_types == {"4k", "fhd", "hd"}

resolution_conflict(amz_identifiers, fk_identifiers) ==
    LET amz_res == amz_identifiers \cap res_types
        fk_res  == fk_identifiers \cap res_types
    IN  amz_res # {} /\ fk_res # {} /\ amz_res \cap fk_res = {}

\* {x for x in identifiers if x.endswith('inch')}
sizes_of(identifiers) == { x \in identifiers : endswith(x, "inch") }

RECURSIVE replace_inch(_, _)
\* x.replace('inch', ''), from position i on
replace_inch(x, i) ==
    IF i > Len(x) THEN ""
    ELSE IF StartsAt(x, i, "inch") THEN replace_inch(x, i + 4)
    ELSE CharAt(x, i) \o replace_inch(x, i + 1)

\* int(list(sizes)[0].replace('inch', '')) raises ValueError; first is list(sizes)[0]
size_raises(first) == ~IsAllDigits(replace_inch(first, 1))

size_val(first) == StrToInt(replace_inch(first, 1))

\* the size block raises for this pair: both size sets are non-empty and one of the two
\* elements that list(...)[0] yields is no number once 'inch' is removed
size_check_raises(amz_identifiers, fk_identifiers, order) ==
    /\ sizes_of(amz_identifiers) # {}
    /\ sizes_of(fk_identifiers) # {}
    /\ \/ size_raises(order[sizes_of(amz_identifiers)])
       \/ size_raises(order[sizes_of(fk_identifiers)])

\* faulty variant of size_differs: a tolerance of a foot instead of an inch
size_differs_by_a_foot(amz_val, fk_val) == Abs(amz_val - fk_val) > 12

\* abs(amz_val - fk_val) > 1
size_differs(amz_val, fk_val) == Abs(amz_val - fk_val) > 1

\* size_conflict of a pair whose size block does not raise
size_conflict(amz_identifiers, fk_identifiers, order) ==
    /\ sizes_of(amz_identifiers) # {}
    /\ sizes_of(fk_identifiers) # {}
    /\ size_differs(size_val(order[sizes_of(amz_identifiers)]),
                    size_val(order[sizes_of(fk_identifiers)]))

matcher_variants ==
    {"pro", "max", "plus", "ultra", "mini", "air", "lite", "fe", "v2", "gen", "generation"}

\* faulty variant of variant_conflict: a side without variant tag conflicts with nothing
variant_conflict_both_tagged(amz_identifiers, fk_identifiers) ==
    /\ amz_identifiers \cap matcher_variants # {}
    /\ fk_identifiers \cap matcher_variants # {}
    /\ amz_identifiers \cap matcher_variants # fk_identifiers \cap matcher_variants

variant_conflict(amz_identifiers, fk_identifiers) ==
    amz_identifiers \cap matcher_variants # fk_identifiers \cap matcher_variants

\* faulty variant of price_conflict: the difference is not divided by min(p1, p2)
price_conflict_absolute(p1, p2) ==
    p1 # None /\ p2 # None /\ 10 * Abs(p1 - p2) > 8

\* faulty variant of price_conflict: an absent price is compared as the number 0
price_conflict_unguarded(p1, p2) ==
    p1 # p2 /\ 10 * Abs(p1 - p2) > 8 * Min(p1, p2)

\* abs(p1 - p2) / min(p1, p2) > 0.8 for prices that are both truthy (positive)
price_conflict(p1, p2) ==
    p1 # None /\ p2 # None /\ 10 * Abs(p1 - p2) > 8 * Min(p1, p2)

color_conflict(amz_identifiers, fk_identifiers) ==
    LET amz_colors == with_prefix(amz_identifiers, "color_")
        fk_colors  == with_prefix(fk_identifiers, "color_")
    IN  amz_colors # {} /\ fk_colors # {} /\ amz_colors # fk_colors

unit_conflict(amz_identifiers, fk_identifiers) ==
    LET amz_units == with_prefix(amz_identifiers, "unit_")
        fk_units  == with_prefix(fk_identifiers, "unit_")
    IN  amz_units # {} /\ fk_units # {} /\ amz_units # fk_units

storage_conflict(amz_identifiers, fk_identifiers) ==
    LET amz_storage == with_prefix(amz_identifiers, "storage_")
        fk_storage  == with_prefix(fk_identifiers, "storage_")
    IN  amz_storage # {} /\ fk_storage # {} /\ amz_storage \cap fk_storage = {}

watt_conflict(amz_identifiers, fk_identifiers) ==
    LET amz_watt == with_prefix(amz_identifiers, "watt_")
        fk_watt  == with_prefix(fk_identifiers, "watt_")
    IN  amz_watt # {} /\ fk_watt # {} /\ amz_watt # fk_watt

appmodel_conflict(amz_identifiers, fk_identifiers) ==
    LET amz_appmodel == with_prefix(amz_identifiers, "appmodel_")
        fk_appmodel  == with_prefix(fk_identifiers, "appmodel_")
    IN  amz_appmodel # {} /\ fk_appmodel # {} /\ amz_appmodel \cap fk_appmodel = {}

jars_conflict(amz_identifiers, fk_identifiers) ==
    LET amz_jars == with_prefix(amz_identifiers, "jars_")
        fk_jars  == with_prefix(fk_identifiers, "jars_")
    IN  amz_jars # {} /\ fk_jars # {} /\ amz_jars # fk_jars

\* faulty variant of hard_reject: storage_conflict is left out of the disjunction
hard_reject_without_storage(amz_identifiers, fk_identifiers, p1, p2, order) ==
    \/ series_conflict(amz_identifiers, fk_identifiers)
    \/ resolution_conflict(amz_identifiers, fk_identifiers)
    \/ size_conflict(amz_identifiers, fk_identifiers, order)
    \/ color_conflict(amz_identifiers, fk_identifiers)
    \/ unit_conflict(amz_identifiers, fk_identifiers)
    \/ variant_conflict(amz_identifiers, fk_identifiers)
    \/ price_conflict(p1, p2)
    \/ watt_conflict(amz_identifiers, fk_identifiers)
    \/ appmodel_conflict(amz_identifiers, fk_identifiers)
    \/ jars_conflict(amz_identifiers, fk_identifiers)

\* "Hard Rejection on Conflicts": the disjunction that guards `continue`
hard_reject(amz_identifiers, fk_identifiers, p1, p2, order) ==
    \/ series_conflict(amz_identifiers, fk_identifiers)
    \/ resolution_conflict(amz_identifiers, fk_identifiers)
    \/ size_conflict(amz_identifiers, fk_identifiers, order)
    \/ storage_conflict(amz_identifiers, fk_identifiers)
    \/ color_conflict(amz_identifiers, fk_identifiers)
    \/ unit_conflict(amz_identifiers, fk_identifiers)
    \/ variant_conflict(amz_identifiers, fk_identifiers)
    \/ price_conflict(p1, p2)
    \/ watt_conflict(amz_identifiers, fk_identifiers)
    \/ appmodel_conflict(amz_identifiers, fk_identifiers)
    \/ jars_conflict(amz_identifiers, fk_identifiers)

model_match(amz_identifiers, fk_identifiers) ==
    with_prefix(amz_identifiers, "model_") \cap with_prefix(fk_identifiers, "model_") # {}

\* semantic_score + identifier_overlap * 0.1 (+ 0.5), in hundredths
score_of(semantic_score, amz_identifiers, fk_identifiers) ==
    semantic_score
    + 10 * Cardinality(amz_identifiers \cap fk_identifiers)
    + (IF model_match(amz_identifiers, fk_identifiers) THEN 50 ELSE 0)

brand_ids ==
    {"apple", "iphone", "samsung", "oneplus", "xiaomi", "redmi", "realme", "oppo", "vivo",
     "poco", "motorola", "google", "pixel", "nothing", "mi", "lg", "sony", "boat", "jbl"}

key_match_count(amz_identifiers, fk_identifiers) ==
    LET amz_storage == with_prefix(amz_identifiers, "storage_")
        fk_storage  == with_prefix(fk_identifiers, "storage_")
        amz_colors  == with_prefix(amz_identifiers, "color_")
        fk_colors   == with_prefix(fk_identifiers, "color_")
    IN  (IF (amz_identifiers \cap brand_ids) \cap (fk_identifiers \cap brand_ids) # {} THEN 1 ELSE 0)
        + (IF amz_storage # {} /\ fk_storage # {} /\ amz_storage = fk_storage THEN 1 ELSE 0)
        + (IF amz_colors # {} /\ fk_colors # {} /\ amz_colors = fk_colors THEN 1 ELSE 0)

\* faulty variant of gate_passes: the key-match gates do not look at the similarity
gate_passes_on_count(kmc, semantic_score, mm) ==
    \/ kmc >= 2
    \/ mm
    \/ semantic_score > 78

\* the if / elif chain under `if score > best_score`: some branch assigns the best
gate_passes(kmc, semantic_score, mm) ==
    \/ kmc >= 3 /\ semantic_score > 50
    \/ kmc >= 2 /\ semantic_score > 60
    \/ mm
    \/ semantic_score > 78

(* ------------------------------------------------------------------ *)
(* Inputs: the two scraped catalogs and the embedding provider         *)
(* ------------------------------------------------------------------ *)

\* longest catalog given to match_products
MaxLen == 2

\* number of calls of match_products on the same input that are followed
MaxCalls == 2

\* listings a scraper may return (title, price); the link is set per position
AmazonPool ==
    { [title |-> "Samsung Galaxy S21 128GB Black", price |-> 699],
      [title |-> "XYZ TV 43 inch 4K", price |-> 300],
      [title |-> "LG TV 32inch", price |-> 300] }

FlipkartPool ==
    { [title |-> "Samsung Galaxy S21 128GB Phantom Black", price |-> 679],
      [title |-> "Samsung Galaxy S21 256GB Black", price |-> 720],
      [title |-> "XYZ TV 55 inch 4K", price |-> 310],
      [title |-> "LG TV 33 inch", price |-> 310],
      [title |-> "LG TV 43 inch", price |-> 320] }

\* phone listings: spaced storage ("128 GB", no model_ tag), a listing with two colours,
\* listings whose price is absent, a far higher price, a manufacturer code
AmazonPhones ==
    { [title |-> "Samsung Galaxy S21 128 GB Black", price |-> 699],
      [title |-> "Samsung Galaxy S21 SM-G991B", price |-> None] }

FlipkartPhones ==
    { [title |-> "Samsung Galaxy S21 128 GB Black Blue", price |-> 679],
      [title |-> "Samsung Galaxy S21 128 GB", price |-> 689],
      [title |-> "Samsung Galaxy S21 128 GB Black", price |-> None],
      [title |-> "Samsung Galaxy S21 128 GB Black", price |-> 1500],
      [title |-> "Galaxy S21 SM-G991B", price |-> 650] }

\* listings with a variant written in one word or in two, of a brand the matcher's
\* brand list leaves out, with two series names, and with RAM and storage sizes side by side
AmazonVariants ==
    { [title |-> "Apple iPhone 15 ProMax", price |-> 999],
      [title |-> "HP Pavilion 512 GB Silver", price |-> 500],
      [title |-> "Samsung Galaxy S21 8GB RAM 128GB", price |-> 699] }

FlipkartVariants ==
    { [title |-> "Apple iPhone 15 Pro Max", price |-> 989],
      [title |-> "Apple iPhone 15", price |-> 899],
      [title |-> "HP Pavilion Envy 512 GB Silver", price |-> 520],
      [title |-> "HP Pavilion 512 GB Silver", price |-> 510],
      [title |-> "Samsung Galaxy S21 8GB RAM 256GB", price |-> 720] }

SeqsUpTo(S, n) == UNION { [1..k -> S] : k \in 0..n }

\* a catalog: listings of the pool in any order, with repetition, each with its own link
Catalogs(pool, source) ==
    { [k \in 1..Len(q) |-> [title |-> q[k].title, price |-> q[k].price,
                            link |-> source \o "/" \o ToString(k)]] :
        q \in SeqsUpTo(pool, MaxLen) }

\* the embedding providers considered: each gives every pair of titles the same cosine
\* similarity (0.55, 0.9 or 1.0)
Providers == {"sim55", "sim90", "sim100"}

\* providers for the phone listings: similarities on either side of the gates' thresholds
PhoneProviders == {"sim55", "sim70", "sim90"}

VariantProviders == {"sim55", "sim90"}

\* float(cosine_scores[i][j]) in hundredths
cos_sim(prov, amz_title, fk_title) ==
    CASE prov = "sim55"  -> 55
      [] prov = "sim70"  -> 70
      [] prov = "sim90"  -> 90
      [] prov = "sim100" -> 100

AllTitles ==
    { p.title : p \in AmazonPool \cup FlipkartPool \cup AmazonPhones \cup FlipkartPhones
                       \cup AmazonVariants \cup FlipkartVariants }

\* extract_key_identifiers is pure: its value on each title of the pools, computed once
\* (the set is written element by element so that it is held enumerated)
identifier_table == { <<t, { x : x \in extract_key_identifiers(t) }>> : t \in AllTitles }

\* extract_key_identifiers(title) for a title of the pools
identifiers_of(title) == (CHOOSE p \in identifier_table : p[1] = title)[2]

(* ------------------------------------------------------------------ *)
(* State                                                               *)
(* ------------------------------------------------------------------ *)

VARIABLES
    amazon_products,    \* argument of match_products
    flipkart_products,  \* argument of match_products
    provider,           \* the embedding provider behind get_model()
    pc,                 \* "idle", "matching", "leftover", "sorting", "done", "error"
    amz_data,           \* identifiers of each Amazon listing
    fk_data,            \* identifiers of each Flipkart listing
    cosine_scores,      \* cosine_scores[amz_i][j]
    list_first,         \* for each set of 'inch' tags, the element list(...)[0] yields in this run
    amz_i,              \* i, the index of the anchor the outer loop is at
    used_flipkart,      \* indices of consumed Flipkart listings
    best_idxs,          \* best_idx of each anchor processed so far (0: none)
    unified_products,   \* the list under construction
    result,             \* the returned list
    calls,              \* calls made so far
    prev,               \* outcome of the previous call on the same input
    api_pc,             \* search_with_timeout: "idle", "waiting", "draining", "returned"
    timed_out,          \* future.result(timeout=timeout) raised FuturesTimeoutError
    response            \* what search_with_timeout gave its caller

vars == <<amazon_products, flipkart_products, provider, pc, amz_data, fk_data,
          cosine_scores, list_first, amz_i, used_flipkart, best_idxs, unified_products,
          result, calls, prev, api_pc, timed_out, response>>

\* the state of search_with_timeout (app.py)
api_vars == <<api_pc, timed_out, response>>

\* search_with_timeout has given its caller nothing yet
NoResponse == [kind |-> "none", products |-> <<>>, is_fallback |-> FALSE]

\* search_with_timeout is not running
api_idle == api_pc = "idle" /\ timed_out = FALSE /\ response = NoResponse

NoRun == [pc |-> "none", result |-> <<>>]

\* no call has been made
not_called ==
    /\ pc = "idle"
    /\ amz_data = <<>>
    /\ fk_data = <<>>
    /\ cosine_scores = <<>>
    /\ list_first = <<>>
    /\ amz_i = 0
    /\ used_flipkart = {}
    /\ best_idxs = <<>>
    /\ unified_products = <<>>
    /\ result = <<>>
    /\ calls = 0
    /\ prev = NoRun
    /\ api_idle

InitPhones ==
    /\ amazon_products \in Catalogs(AmazonPhones, "amazon")
    /\ flipkart_products \in Catalogs(FlipkartPhones, "flipkart")
    /\ provider \in PhoneProviders
    /\ not_called

InitVariants ==
    /\ amazon_products \in Catalogs(AmazonVariants, "amazon")
    /\ flipkart_products \in Catalogs(FlipkartVariants, "flipkart")
    /\ provider \in VariantProviders
    /\ not_called

Init ==
    /\ amazon_products \in Catalogs(AmazonPool, "amazon")
    /\ flipkart_products \in Catalogs(FlipkartPool, "flipkart")
    /\ provider \in Providers
    /\ pc = "idle"
    /\ amz_data = <<>>
    /\ fk_data = <<>>
    /\ cosine_scores = <<>>
    /\ list_first = <<>>
    /\ amz_i = 0
    /\ used_flipkart = {}
    /\ best_idxs = <<>>
    /\ unified_products = <<>>
    /\ result = <<>>
    /\ calls = 0
    /\ prev = NoRun
    /\ api_idle

(* ------------------------------------------------------------------ *)
(* match_products, step by step                                        *)
(* ------------------------------------------------------------------ *)

\* faulty variant of empty_input: `and` in place of `or`
both_empty(amz, fk) == amz = <<>> /\ fk = <<>>

\* if not amazon_products or not flipkart_products: return []
empty_input(amz, fk) == amz = <<>> \/ fk = <<>>

\* "Pre-calculate identifiers": the identifiers of every listing of a catalog
precompute(products) == [k \in 1..Len(products) |-> identifiers_of(products[k].title)]

\* the sets of 'inch' tags whose first element the size block may ask for
size_sets(amz, fk) ==
    { sizes_of(amz[k]) : k \in 1..Len(amz) } \cup { sizes_of(fk[k]) : k \in 1..Len(fk) }

\* the iteration orders a run may see: list(s)[0] is some element of s, the same one
\* every time the same set is built within the run
list_orders(sets) == { f \in [sets \ {{}} -> UNION sets] : \A s \in DOMAIN f : f[s] \in s }

\* entry of match_products up to the start of the matching loop
Call ==
    /\ pc \in {"idle", "done", "error"}
    /\ calls < MaxCalls
    /\ calls' = calls + 1
    /\ prev' = IF pc = "idle" THEN NoRun ELSE [pc |-> pc, result |-> result]
    /\ unified_products' = <<>>
    /\ used_flipkart' = {}
    /\ best_idxs' = <<>>
    /\ IF empty_input(amazon_products, flipkart_products)
       THEN /\ pc' = "done"
            /\ result' = <<>>
            /\ amz_i' = 0
            /\ amz_data' = <<>>
            /\ fk_data' = <<>>
            /\ cosine_scores' = <<>>
            /\ list_first' = <<>>
       ELSE \* `for amz_i, amz in enumerate(amz_data)` iterates over nothing when the list is empty
            /\ pc' = IF amazon_products = <<>> THEN "leftover" ELSE "matching"
            /\ result' = <<>>
            /\ amz_i' = 1
            /\ amz_data' = precompute(amazon_products)
            /\ fk_data' = precompute(flipkart_products)
            /\ cosine_scores' =
                 [a \in 1..Len(amazon_products) |->
                    [f \in 1..Len(flipkart_products) |->
                       cos_sim(provider, amazon_products[a].title, flipkart_products[f].title)]]
            /\ list_first' \in list_orders(size_sets(amz_data', fk_data'))
    /\ UNCHANGED <<amazon_products, flipkart_products, provider>>

\* faulty variant of is_used: the used set is not consulted
never_used(j, used) == FALSE

\* if fk['idx'] in used_flipkart: continue
is_used(j, used) == j \in used

\* faulty variant of replaces_best: the comparison with best_score is inverted
replaces_worse(score, best_score, kmc, semantic_score, mm) ==
    score < best_score /\ gate_passes(kmc, semantic_score, mm)

\* faulty variant of replaces_best: a candidate that ties with the best replaces it
replaces_on_tie(score, best_score, kmc, semantic_score, mm) ==
    score >= best_score /\ gate_passes(kmc, semantic_score, mm)

\* `if score > best_score` and one branch of the if / elif chain
replaces_best(score, best_score, kmc, semantic_score, mm) ==
    score > best_score /\ gate_passes(kmc, semantic_score, mm)

RECURSIVE scan(_, _, _)
\* the inner loop `for j, fk in enumerate(fk_data)` of anchor a from j on;
\* best = [best_score, best_idx, raised]
scan(a, j, best) ==
    IF j > Len(fk_data) \/ best.raised THEN best
    ELSE IF is_used(j, used_flipkart) THEN scan(a, j + 1, best)
    ELSE IF size_check_raises(amz_data[a], fk_data[j], list_first)
         THEN [best EXCEPT !.raised = TRUE]
    ELSE IF hard_reject(amz_data[a], fk_data[j], amazon_products[a].price,
                        flipkart_products[j].price, list_first)
         THEN scan(a, j + 1, best)
    ELSE LET semantic_score == cosine_scores[a][j]
             score == score_of(semantic_score, amz_data[a], fk_data[j])
         IN  IF replaces_best(score, best.best_score,
                              key_match_count(amz_data[a], fk_data[j]), semantic_score,
                              model_match(amz_data[a], fk_data[j]))
             THEN scan(a, j + 1, [best_score |-> score, best_idx |-> j, raised |-> FALSE])
             ELSE scan(a, j + 1, best)

\* the record appended for anchor a with best match best_idx (0: no match).  The
\* image, rating and is_prime fields are copied from the Amazon listing and read by
\* nothing in match_products; they are left out.
unified_of(a, best_idx, id) ==
    [id |-> id,
     title |-> amazon_products[a].title,
     amazon_price |-> amazon_products[a].price,
     amazon_link |-> amazon_products[a].link,
     flipkart_price |-> IF best_idx # 0 THEN flipkart_products[best_idx].price ELSE None,
     flipkart_link |-> IF best_idx # 0 THEN flipkart_products[best_idx].link ELSE ""]

\* if best_match: used_flipkart.add(best_idx)
mark_used(used, best_idx) == IF best_idx # 0 THEN used \cup {best_idx} ELSE used

\* one iteration of `for amz_i, amz in enumerate(amz_data)`
MatchAnchor ==
    /\ pc = "matching"
    /\ LET best == scan(amz_i, 1, [best_score |-> 0, best_idx |-> 0, raised |-> FALSE])
       IN  IF best.raised
           THEN /\ pc' = "error"
                /\ UNCHANGED <<amz_i, used_flipkart, best_idxs, unified_products>>
           ELSE /\ unified_products' =
                     Append(unified_products, unified_of(amz_i, best.best_idx, Len(unified_products) + 1))
                /\ used_flipkart' = mark_used(used_flipkart, best.best_idx)
                /\ best_idxs' = Append(best_idxs, best.best_idx)
                /\ amz_i' = amz_i + 1
                /\ pc' = IF amz_i = Len(amz_data) THEN "leftover" ELSE "matching"
    /\ UNCHANGED <<amazon_products, flipkart_products, provider, amz_data, fk_data,
                   cosine_scores, list_first, result, calls, prev>>

\* the record appended for a Flipkart listing
flipkart_only(idx, id) ==
    [id |-> id,
     title |-> flipkart_products[idx].title,
     amazon_price |-> None,
     amazon_link |-> "",
     flipkart_price |-> flipkart_products[idx].price,
     flipkart_link |-> flipkart_products[idx].link]

\* faulty variant of is_unmatched: every Flipkart listing is emitted again
any_listing(idx, used) == TRUE

\* if idx not in used_flipkart
is_unmatched(idx, used) == idx \notin used

RECURSIVE add_unmatched(_, _)
\* "Add unmatched Flipkart products": the loop from idx on
add_unmatched(idx, acc) ==
    IF idx > Len(flipkart_products) THEN acc
    ELSE IF is_unmatched(idx, used_flipkart)
         THEN add_unmatched(idx + 1, Append(acc, flipkart_only(idx, Len(acc) + 1)))
         ELSE add_unmatched(idx + 1, acc)

AddUnmatched ==
    /\ pc = "leftover"
    /\ unified_products' = add_unmatched(1, unified_products)
    /\ pc' = "sorting"
    /\ UNCHANGED <<amazon_products, flipkart_products, provider, amz_data, fk_data,
                   cosine_scores, list_first, amz_i, used_flipkart, best_idxs, result,
                   calls, prev>>

\* faulty variant of both_prices: `or` in place of `and`
either_price(p) == p.amazon_price # None \/ p.flipkart_price # None

\* p['amazon_price'] and p['flipkart_price']
both_prices(p) == p.amazon_price # None /\ p.flipkart_price # None

RECURSIVE filter_records(_, _, _)
\* [p for p in ps if both_prices(p) = want], from k on
filter_records(ps, k, want) ==
    IF k > Len(ps) THEN <<>>
    ELSE (IF both_prices(ps[k]) = want THEN <<ps[k]>> ELSE <<>>) \o filter_records(ps, k + 1, want)

\* faulty variant of sorted_products: the unmatched records are dropped
matched_only(ps) ==
    LET sorted == filter_records(ps, 1, TRUE)
    IN  [k \in 1..Len(sorted) |->
           [id |-> k,
            title |-> sorted[k].title,
            amazon_price |-> sorted[k].amazon_price,
            amazon_link |-> sorted[k].amazon_link,
            flipkart_price |-> sorted[k].flipkart_price,
            flipkart_link |-> sorted[k].flipkart_link,
            has_comparison |-> both_prices(sorted[k])]]

\* faulty variant of sorted_products: the records that lack a price come first
unmatched_first(ps) ==
    LET sorted == filter_records(ps, 1, FALSE) \o filter_records(ps, 1, TRUE)
    IN  [k \in 1..Len(sorted) |->
           [id |-> k,
            title |-> sorted[k].title,
            amazon_price |-> sorted[k].amazon_price,
            amazon_link |-> sorted[k].amazon_link,
            flipkart_price |-> sorted[k].flipkart_price,
            flipkart_link |-> sorted[k].flipkart_link,
            has_comparison |-> both_prices(sorted[k])]]

\* matched + unmatched, then the loop that re-assigns ids and sets has_comparison
sorted_products(ps) ==
    LET sorted == filter_records(ps, 1, TRUE) \o filter_records(ps, 1, FALSE)
    IN  [k \in 1..Len(sorted) |->
           [id |-> k,
            title |-> sorted[k].title,
            amazon_price |-> sorted[k].amazon_price,
            amazon_link |-> sorted[k].amazon_link,
            flipkart_price |-> sorted[k].flipkart_price,
            flipkart_link |-> sorted[k].flipkart_link,
            has_comparison |-> both_prices(sorted[k])]]

SortAndReturn ==
    /\ pc = "sorting"
    /\ result' = sorted_products(unified_products)
    /\ pc' = "done"
    /\ UNCHANGED <<amazon_products, flipkart_products, provider, amz_data, fk_data,
                   cosine_scores, list_first, amz_i, used_flipkart, best_idxs,
                   unified_products, calls, prev>>

\* match_products called directly: search_with_timeout is not involved
Next ==
    \/ Call /\ UNCHANGED api_vars
    \/ MatchAnchor /\ UNCHANGED api_vars
    \/ AddUnmatched /\ UNCHANGED api_vars
    \/ SortAndReturn /\ UNCHANGED api_vars

Spec == Init /\ [][Next]_vars

(* ------------------------------------------------------------------ *)
(* search_with_timeout (app.py): the scraper call runs on a worker      *)
(* thread; the caller waits for it with a timeout                       *)
(* ------------------------------------------------------------------ *)

\* what the two scrapers hand to match_products inside search_products (an empty list
\* when a scraper failed or timed out)
ApiAmazonPool ==
    { [title |-> "Samsung Galaxy S21 128GB Black", price |-> 699],
      [title |-> "LG TV 32inch", price |-> 300] }

ApiFlipkartPool ==
    { [title |-> "Samsung Galaxy S21 128GB Phantom Black", price |-> 679],
      [title |-> "LG TV 33 inch", price |-> 310] }

InitApi ==
    /\ amazon_products \in Catalogs(ApiAmazonPool, "amazon")
    /\ flipkart_products \in Catalogs(ApiFlipkartPool, "flipkart")
    /\ provider = "sim90"
    /\ not_called

\* load_fallback_data(): the products of fallback_data.json, or [] when loading fails
\* (the file is not part of the sources; one product stands for its content)
load_fallback_data == { <<>>, <<[id |-> 1, title |-> "fallback"]>> }

\* the exception match_products raises: int() on 'model_32' is a ValueError
raised_class == "ValueError"

\* the classes `except FuturesTimeoutError` and `except Exception` catch
caught(cls) == cls \in {"TimeoutError", "ValueError", "Exception"}

\* faulty variant of has_results: an empty list is returned as a result
any_results(results) == TRUE

\* if results and len(results) > 0
has_results(results) == results # <<>>

\* the future of the submitted call is finished (returned or raised)
future_done == pc \in {"done", "error"}

\* future = executor.submit(search_products, query, timeout)
Submit ==
    /\ api_pc \in {"idle", "returned"}
    /\ calls < MaxCalls
    /\ api_pc' = "waiting"
    /\ timed_out' = FALSE
    /\ response' = NoResponse
    /\ pc' = "idle"
    /\ UNCHANGED <<amazon_products, flipkart_products, provider, amz_data, fk_data,
                   cosine_scores, list_first, amz_i, used_flipkart, best_idxs,
                   unified_products, result, calls, prev>>

\* the worker thread is running search_products
worker_running == api_pc \in {"waiting", "draining"}

\* future.result(timeout=timeout) raises FuturesTimeoutError: the call is not finished
\* when the wait ends; leaving the `with` block then waits for the worker
\* (shutdown(wait=True))
Timeout ==
    /\ api_pc = "waiting"
    /\ ~future_done
    /\ api_pc' = "draining"
    /\ timed_out' = TRUE
    /\ UNCHANGED <<amazon_products, flipkart_products, provider, pc, amz_data, fk_data,
                   cosine_scores, list_first, amz_i, used_flipkart, best_idxs,
                   unified_products, result, calls, prev, response>>

\* return results, False
ReturnResults ==
    /\ api_pc = "waiting"
    /\ pc = "done"
    /\ has_results(result)
    /\ api_pc' = "returned"
    /\ response' = [kind |-> "return", products |-> result, is_fallback |-> FALSE]
    /\ UNCHANGED <<amazon_products, flipkart_products, provider, pc, amz_data, fk_data,
                   cosine_scores, list_first, amz_i, used_flipkart, best_idxs,
                   unified_products, result, calls, prev, timed_out>>

\* the exception future.result() re-raised leaves search_with_timeout
propagates == api_pc = "waiting" /\ pc = "error" /\ ~caught(raised_class)

\* return load_fallback_data(), True: after an empty or None result, a caught
\* exception, or a timeout once the worker has finished; an exception that no except
\* clause catches would reach the caller instead
ReturnFallback ==
    /\ \/ api_pc = "waiting" /\ pc = "done" /\ ~has_results(result)
       \/ api_pc = "waiting" /\ pc = "error"
       \/ api_pc = "draining" /\ future_done
    /\ api_pc' = "returned"
    /\ IF propagates
       THEN response' = [kind |-> "raise", products |-> <<>>, is_fallback |-> FALSE]
       ELSE \E data \in load_fallback_data :
                response' = [kind |-> "return", products |-> data, is_fallback |-> TRUE]
    /\ UNCHANGED <<amazon_products, flipkart_products, provider, pc, amz_data, fk_data,
                   cosine_scores, list_first, amz_i, used_flipkart, best_idxs,
                   unified_products, result, calls, prev, timed_out>>

\* search_with_timeout and the worker thread it starts
NextApi ==
    \/ Submit
    \/ worker_running /\ Call /\ UNCHANGED api_vars
    \/ worker_running /\ MatchAnchor /\ UNCHANGED api_vars
    \/ worker_running /\ AddUnmatched /\ UNCHANGED api_vars
    \/ worker_running /\ SortAndReturn /\ UNCHANGED api_vars
    \/ Timeout
    \/ ReturnResults
    \/ ReturnFallback

SpecApi == InitApi /\ [][NextApi]_vars

\* the same program on the phone listings
SpecPhones == InitPhones /\ [][Next]_vars

\* the same program on the variant, brand and series listings
SpecVariants == InitVariants /\ [][Next]_vars

(* ------------------------------------------------------------------ *)
(* Properties                                                          *)
(* ------------------------------------------------------------------ *)

\* match_products has returned a list (the run raised nothing)
returned == pc = "done"

nonempty_inputs == amazon_products # <<>> /\ flipkart_products # <<>>

\* the records of ps whose amazon fields are those of Amazon listing a
from_amazon(ps, a) == { k \in 1..Len(ps) : ps[k].amazon_link = amazon_products[a].link }

\* the records of ps whose flipkart fields are those of Flipkart listing j
from_flipkart(ps, j) == { k \in 1..Len(ps) : ps[k].flipkart_link = flipkart_products[j].link }

\* the Flipkart-only records of ps made from Flipkart listing j
flipkart_only_from(ps, j) ==
    { k \in from_flipkart(ps, j) :
        /\ ps[k].amazon_link = ""
        /\ ps[k].amazon_price = None
        /\ ps[k].flipkart_price = flipkart_products[j].price }

\* some record of the result merges Amazon listing a with Flipkart listing j
merged(a, j) ==
    \E k \in from_amazon(result, a) :
        /\ result[k].flipkart_link = flipkart_products[j].link
        /\ result[k].amazon_price = amazon_products[a].price
        /\ result[k].flipkart_price = flipkart_products[j].price
        /\ result[k].has_comparison

\* the anchors that accepted a match
accepted == { a \in 1..Len(best_idxs) : best_idxs[a] # 0 }

\* C1: a Flipkart listing supplies the flipkart fields of at most one record: the
\* anchors that accepted a match accepted pairwise different, consumed indices; no
\* two records of the list under construction or of the result carry the link of
\* the same Flipkart listing; and every record of the result that has flipkart
\* fields has the link and price of one Flipkart listing.
C1_UsedOnce ==
    /\ \A a \in accepted : best_idxs[a] \in used_flipkart
    /\ \A a \in accepted : \A b \in accepted : a # b => best_idxs[a] # best_idxs[b]
    /\ \A j \in 1..Len(flipkart_products) : Cardinality(from_flipkart(unified_products, j)) <= 1
    /\ (returned /\ nonempty_inputs) =>
         /\ \A j \in 1..Len(flipkart_products) : Cardinality(from_flipkart(result, j)) <= 1
         /\ \A k \in 1..Len(result) :
              result[k].flipkart_link # "" =>
                \E j \in 1..Len(flipkart_products) :
                    /\ k \in from_flipkart(result, j)
                    /\ result[k].flipkart_price = flipkart_products[j].price

\* C1 happens: two anchors with the same title, the first consumed a Flipkart
\* listing, the second was left unmatched, and a Flipkart-only record was emitted
C1_Reached ==
    /\ returned
    /\ Len(best_idxs) = 2
    /\ amazon_products[1].title = amazon_products[2].title
    /\ best_idxs[1] # 0
    /\ best_idxs[2] = 0
    /\ \E k \in 1..Len(result) : result[k].amazon_link = ""

\* C2 as stated: with no precondition on emptiness, every Amazon listing is in
\* exactly one record of the result
C2_EveryAmazonListingOnce_AnyInput ==
    returned => \A a \in 1..Len(amazon_products) : Cardinality(from_amazon(result, a)) = 1

\* C2 amended: when both catalogs are non-empty, every Amazon listing is in exactly one
\* record of the result, with its own title and price, whether it was matched or not
C2_EveryAmazonListingOnce ==
    (returned /\ nonempty_inputs) =>
        \A a \in 1..Len(amazon_products) :
            /\ Cardinality(from_amazon(result, a)) = 1
            /\ \A k \in from_amazon(result, a) :
                 /\ result[k].title = amazon_products[a].title
                 /\ result[k].amazon_price = amazon_products[a].price

\* C2 happens: a result with a matched and an unmatched Amazon listing
C2_Reached ==
    /\ returned
    /\ nonempty_inputs
    /\ accepted # {}
    /\ accepted # 1..Len(amazon_products)

\* C3: if A is empty or B is empty the result is the empty sequence
C3_EmptyInput == (returned /\ ~nonempty_inputs) => result = <<>>

\* C3 happens: a call returned with listings on the Amazon side only
C3_Reached == returned /\ amazon_products # <<>> /\ flipkart_products = <<>>

\* C4: for non-empty A and B the result holds one record per Amazon listing, one
\* Flipkart-only record per Flipkart listing no anchor consumed, none for a consumed
\* one, and nothing else; their number is |A| + |B| - accepted matches
C4_RecordCount ==
    (returned /\ nonempty_inputs) =>
        /\ Len(result) = Len(amazon_products) + Len(flipkart_products) - Cardinality(accepted)
        /\ \A a \in 1..Len(amazon_products) : Cardinality(from_amazon(result, a)) = 1
        /\ \A j \in 1..Len(flipkart_products) :
             Cardinality(flipkart_only_from(result, j)) = IF j \in used_flipkart THEN 0 ELSE 1
        /\ \A k \in 1..Len(result) :
             \/ \E a \in 1..Len(amazon_products) : k \in from_amazon(result, a)
             \/ \E j \in 1..Len(flipkart_products) : k \in flipkart_only_from(result, j)

\* C4 happens: a result where one Flipkart listing was consumed and another was not
C4_Reached ==
    /\ returned
    /\ nonempty_inputs
    /\ used_flipkart # {}
    /\ used_flipkart # 1..Len(flipkart_products)

\* the conflict rules that are true of the pair (a, j)
conflicts_of(a, j) ==
    { r \in {"series", "resolution", "size", "variant", "price", "color", "unit",
             "storage", "watt", "appmodel", "jars"} :
        CASE r = "series"     -> series_conflict(amz_data[a], fk_data[j])
          [] r = "resolution" -> resolution_conflict(amz_data[a], fk_data[j])
          [] r = "size"       -> size_conflict(amz_data[a], fk_data[j], list_first)
          [] r = "variant"    -> variant_conflict(amz_data[a], fk_data[j])
          [] r = "price"      -> price_conflict(amazon_products[a].price, flipkart_products[j].price)
          [] r = "color"      -> color_conflict(amz_data[a], fk_data[j])
          [] r = "unit"       -> unit_conflict(amz_data[a], fk_data[j])
          [] r = "storage"    -> storage_conflict(amz_data[a], fk_data[j])
          [] r = "watt"       -> watt_conflict(amz_data[a], fk_data[j])
          [] r = "appmodel"   -> appmodel_conflict(amz_data[a], fk_data[j])
          [] r = "jars"       -> jars_conflict(amz_data[a], fk_data[j]) }

\* C5: a pair for which one of the eleven conflict rules is true is never accepted,
\* whatever its similarity, overlap or bonus; in particular listings tagged
\* storage_128gb and storage_256gb are never merged
C5_NoConflictAccepted ==
    /\ \A a \in accepted : conflicts_of(a, best_idxs[a]) = {}
    /\ \A a \in accepted :
         ~(/\ with_prefix(amz_data[a], "storage_") = {"storage_128gb"}
           /\ with_prefix(fk_data[best_idxs[a]], "storage_") = {"storage_256gb"})
    /\ \A a \in accepted :
         ~(/\ with_prefix(amz_data[a], "storage_") = {"storage_256gb"}
           /\ with_prefix(fk_data[best_idxs[a]], "storage_") = {"storage_128gb"})

\* C5 happens: a pair tagged storage_128gb / storage_256gb with similarity 1.0 was
\* examined and the anchor was left unmatched
C5_Reached ==
    /\ returned
    /\ \E a \in 1..Len(best_idxs) : \E j \in 1..Len(fk_data) :
         /\ with_prefix(amz_data[a], "storage_") = {"storage_128gb"}
         /\ with_prefix(fk_data[j], "storage_") = {"storage_256gb"}
         /\ cosine_scores[a][j] = 100
         /\ best_idxs[a] = 0

\* identical storage tags, identical color tags and identical brand tags
same_key_tags(a, j) ==
    /\ with_prefix(amz_data[a], "storage_") = with_prefix(fk_data[j], "storage_")
    /\ with_prefix(amz_data[a], "color_") = with_prefix(fk_data[j], "color_")
    /\ amz_data[a] \cap brands = fk_data[j] \cap brands

\* the three kinds of tag are present, so that keyMatchCount is 3
has_key_tags(a) ==
    /\ with_prefix(amz_data[a], "storage_") # {}
    /\ with_prefix(amz_data[a], "color_") # {}
    /\ amz_data[a] \cap brand_ids # {}

pair_score(a, j) == score_of(cosine_scores[a][j], amz_data[a], fk_data[j])

size_tag_of(identifiers) == { x \in sizes_of(identifiers) : IsAllDigits(replace_inch(x, 1)) }

\* the inch value of the screen-size tag
inch_value(identifiers) == StrToInt(replace_inch(CHOOSE x \in size_tag_of(identifiers) : TRUE, 1))

\* C7: for every pair of listings that both carry a screen-size tag, the size rule
\* answers, and rejects the pair if and only if the inch values differ by more than 1
\* (32inch against 33inch is not rejected, 32inch against 43inch is)
C7_SizeRule ==
    \A a \in 1..Len(best_idxs) \cup (IF pc = "error" THEN {amz_i} ELSE {}) :
        \A j \in 1..Len(fk_data) :
            (size_tag_of(amz_data[a]) # {} /\ size_tag_of(fk_data[j]) # {}) =>
                /\ ~size_check_raises(amz_data[a], fk_data[j], list_first)
                /\ size_conflict(amz_data[a], fk_data[j], list_first)
                     <=> Abs(inch_value(amz_data[a]) - inch_value(fk_data[j])) > 1

C8_Amazon == <<[title |-> "Samsung Galaxy S21 128GB Black", price |-> 699, link |-> "amazon/1"]>>

C8_Flipkart ==
    <<[title |-> "Samsung Galaxy S21 128GB Phantom Black", price |-> 679, link |-> "flipkart/1"]>>

\* the call of the S21 scenario has returned
C8_Returned ==
    /\ returned
    /\ amazon_products = C8_Amazon
    /\ flipkart_products = C8_Flipkart
    /\ cosine_scores = << <<90>> >>

\* C8: A = [S21 128GB Black at 699], B = [S21 128GB Phantom Black at 679], similarity
\* 0.9: the result is exactly one record, with amazon price 699, flipkart price 679
\* and has_comparison true
C8_S21Merged ==
    C8_Returned =>
        /\ Len(result) = 1
        /\ result[1].amazon_price = 699
        /\ result[1].flipkart_price = 679
        /\ result[1].has_comparison = TRUE
        /\ result[1].amazon_link = "amazon/1"
        /\ result[1].flipkart_link = "flipkart/1"

\* C8 happens: the scenario's call returned a record that has a comparison
C8_Reached == C8_Returned /\ \E k \in 1..Len(result) : result[k].has_comparison

C9_Amazon == <<[title |-> "XYZ TV 43 inch 4K", price |-> 300, link |-> "amazon/1"]>>

C9_Flipkart == <<[title |-> "XYZ TV 55 inch 4K", price |-> 310, link |-> "flipkart/1"]>>

\* the call of the TV scenario has returned
C9_Returned ==
    /\ returned
    /\ amazon_products = C9_Amazon
    /\ flipkart_products = C9_Flipkart
    /\ cosine_scores = << <<90>> >>

\* C9: A = [XYZ TV 43 inch 4K at 300], B = [XYZ TV 55 inch 4K at 310], similarity 0.9:
\* the size conflict prevents the match; the result is exactly two records, the first
\* with only the amazon price, the second with only the flipkart price, both with
\* has_comparison false
C9_TVsNotMerged ==
    C9_Returned =>
        /\ conflicts_of(1, 1) = {"size"}
        /\ best_idxs = <<0>>
        /\ Len(result) = 2
        /\ result[1].amazon_price = 300
        /\ result[1].flipkart_price = None
        /\ result[1].has_comparison = FALSE
        /\ result[2].amazon_price = None
        /\ result[2].flipkart_price = 310
        /\ result[2].has_comparison = FALSE

\* C9 happens: the scenario's call returned a Flipkart-only record
C9_Reached == C9_Returned /\ \E k \in 1..Len(result) : result[k].amazon_link = ""

\* C10: two runs on the same inputs and the same similarity matrix end the same way,
\* with identical result sequences
C10_Deterministic ==
    (prev.pc # "none" /\ pc \in {"done", "error"}) => (prev.pc = pc /\ prev.result = result)

\* the input is well formed: every listing has a non-empty title string and a price
\* that is a positive number or absent
well_formed(products) ==
    \A k \in 1..Len(products) : products[k].title # "" /\ products[k].price >= None

\* C11: on well-formed input match_products never raises, whatever tags the titles
\* produce (a title with "32inch", which gets a size tag and a model_ tag that both
\* end in "inch", included)
C11_NeverRaises ==
    (well_formed(amazon_products) /\ well_formed(flipkart_products)) => pc # "error"

\* both prices of the pair (a, j) are present
prices_present(a, j) == amazon_products[a].price # None /\ flipkart_products[j].price # None

\* abs(p1 - p2) / min(p1, p2) > 0.8 for the prices of the pair (a, j)
prices_far_apart(a, j) ==
    10 * Abs(amazon_products[a].price - flipkart_products[j].price)
        > 8 * Min(amazon_products[a].price, flipkart_products[j].price)

\* C12: the price rule rejects a pair if and only if both prices are present and
\* abs(p1 - p2) / min(p1, p2) > 0.8; a pair the rule rejects is never accepted, and a
\* pair with an absent price is never rejected by the price rule
C12_PriceRule ==
    \A a \in 1..Len(amz_data) : \A j \in 1..Len(fk_data) :
        /\ price_conflict(amazon_products[a].price, flipkart_products[j].price)
             <=> (prices_present(a, j) /\ prices_far_apart(a, j))
        /\ ~prices_present(a, j) => "price" \notin conflicts_of(a, j)
        /\ (prices_present(a, j) /\ prices_far_apart(a, j) /\ a <= Len(best_idxs))
             => best_idxs[a] # j

\* C12 happens: a call returned in which one anchor was merged with a listing that has
\* no price, and a pair that only the price rule rejects was examined and not merged
C12_Reached ==
    /\ returned
    /\ \E a \in accepted : ~prices_present(a, best_idxs[a])
    /\ \E a \in 1..Len(best_idxs) : \E j \in 1..Len(fk_data) :
         /\ conflicts_of(a, j) = {"price"}
         /\ \A b \in 1..(a - 1) : best_idxs[b] # j
         /\ best_idxs[a] = 0

\* the record carries an Amazon price and a Flipkart price
has_both_prices(r) == r.amazon_price # None /\ r.flipkart_price # None

\* the place in the build order of the record at position k of the result
build_pos(k) ==
    CHOOSE u \in 1..Len(unified_products) :
        /\ unified_products[u].amazon_link = result[k].amazon_link
        /\ unified_products[u].flipkart_link = result[k].flipkart_link

\* the index of the Flipkart listing with this link
flipkart_index(link) == CHOOSE j \in 1..Len(flipkart_products) : flipkart_products[j].link = link

\* C13: the result is a stable partition of the records in build order (the anchors in
\* A input order, then the leftover B listings in B order): records with both prices
\* come before the others, each group keeps the build order, every record built is
\* returned with its own fields, and the record at position k has id k
C13_StablePartition ==
    (returned /\ nonempty_inputs) =>
        /\ Len(result) = Len(unified_products)
        /\ \A u \in 1..Len(unified_products) :
             IF u <= Len(amazon_products)
             THEN unified_products[u].amazon_link = amazon_products[u].link
             ELSE unified_products[u].amazon_link = ""
        /\ \A u \in 1..Len(unified_products) : \A v \in 1..Len(unified_products) :
             (Len(amazon_products) < u /\ u < v) =>
                 flipkart_index(unified_products[u].flipkart_link)
                     < flipkart_index(unified_products[v].flipkart_link)
        /\ \A k \in 1..Len(result) :
             /\ result[k].id = k
             /\ \E u \in 1..Len(unified_products) :
                  /\ unified_products[u].amazon_link = result[k].amazon_link
                  /\ unified_products[u].flipkart_link = result[k].flipkart_link
                  /\ unified_products[u].amazon_price = result[k].amazon_price
                  /\ unified_products[u].flipkart_price = result[k].flipkart_price
                  /\ unified_products[u].title = result[k].title
        /\ \A k \in 1..Len(result) : \A l \in 1..Len(result) :
             k < l =>
                 /\ has_both_prices(result[l]) => has_both_prices(result[k])
                 /\ has_both_prices(result[k]) = has_both_prices(result[l])
                      => build_pos(k) < build_pos(l)

\* C13 happens: a result in which a record with both prices stands before a record
\* built earlier, and each group holds records whose order had to be kept
C13_Reached ==
    /\ returned
    /\ \E k \in 1..Len(result) : \E l \in 1..Len(result) : k < l /\ build_pos(k) > build_pos(l)
    /\ \E k \in 1..Len(result) : \E l \in 1..Len(result) :
         k < l /\ ~has_both_prices(result[k]) /\ ~has_both_prices(result[l])
    /\ \E k \in 1..Len(result) : result[k].flipkart_link # "" /\ ~has_both_prices(result[k])

\* C14: in every returned record has_comparison is true exactly when the record's
\* Amazon price and Flipkart price are both present; a record merged from two listings
\* of which one has no price has has_comparison false
C14_HasComparison ==
    (returned /\ nonempty_inputs) =>
        /\ \A k \in 1..Len(result) : result[k].has_comparison <=> has_both_prices(result[k])
        /\ \A a \in accepted : \A k \in from_amazon(result, a) :
             result[k].has_comparison
                <=> (amazon_products[a].price # None /\ flipkart_products[best_idxs[a]].price # None)

\* C14 happens: a result with a merged record that has both prices and a merged record
\* that lacks one
C14_Reached ==
    /\ returned
    /\ \E k \in 1..Len(result) : result[k].has_comparison
    /\ \E k \in 1..Len(result) :
         /\ result[k].amazon_link # ""
         /\ result[k].flipkart_link # ""
         /\ ~result[k].has_comparison

\* both sets of tags are non-empty and they share no tag
share_none(amz_tags, fk_tags) == amz_tags # {} /\ fk_tags # {} /\ amz_tags \cap fk_tags = {}

\* C15: the colour rule rejects a pair if and only if both sides have color_ tags and
\* the two sets share none, and the unit rule likewise for unit_ tags; a pair with
\* {color_black, color_blue} against {color_black} is not colour-conflicted
C15_ColorUnitRule ==
    \A a \in 1..Len(amz_data) : \A j \in 1..Len(fk_data) :
        /\ color_conflict(amz_data[a], fk_data[j])
             <=> share_none(with_prefix(amz_data[a], "color_"), with_prefix(fk_data[j], "color_"))
        /\ unit_conflict(amz_data[a], fk_data[j])
             <=> share_none(with_prefix(amz_data[a], "unit_"), with_prefix(fk_data[j], "unit_"))

\* C16 as stated: the variant rule rejects a pair if and only if the two sides' sets of
\* variant tags over the extractor's vocabulary (promax included) are not equal
C16_VariantRule_ExtractorVocabulary ==
    \A a \in 1..Len(amz_data) : \A j \in 1..Len(fk_data) :
        variant_conflict(amz_data[a], fk_data[j])
            <=> amz_data[a] \cap extractor_variants # fk_data[j] \cap extractor_variants

\* the variant tags the rule compares: the extractor's vocabulary without promax
compared_variants(identifiers) ==
    identifiers \cap {"pro", "max", "plus", "ultra", "mini", "air", "lite", "fe", "v2", "gen", "generation"}

\* C16 amended: the variant rule rejects a pair if and only if the two sides' sets of
\* variant tags over {pro, max, plus, ultra, mini, air, lite, fe, v2, gen, generation}
\* are not equal, also when one side has none; promax is not compared, so
\* {promax, pro, max} against {pro, max} is not rejected; a rejected pair is never accepted
C16_VariantRule ==
    \A a \in 1..Len(amz_data) : \A j \in 1..Len(fk_data) :
        /\ variant_conflict(amz_data[a], fk_data[j])
             <=> compared_variants(amz_data[a]) # compared_variants(fk_data[j])
        /\ (compared_variants(amz_data[a]) # compared_variants(fk_data[j]) /\ a <= Len(best_idxs))
             => best_idxs[a] # j
        /\ ( /\ amz_data[a] \cap extractor_variants = {"promax", "pro", "max"}
             /\ fk_data[j] \cap extractor_variants = {"pro", "max"} )
             => "variant" \notin conflicts_of(a, j)

\* C16 happens: a listing tagged promax was merged with one tagged pro and max only,
\* and a pair with a variant tag on one side only was rejected by the variant rule alone
C16_Reached ==
    /\ returned
    /\ \E a \in accepted :
         /\ "promax" \in amz_data[a]
         /\ "promax" \notin fk_data[best_idxs[a]]
         /\ merged(a, best_idxs[a])
    /\ \E a \in 1..Len(best_idxs) : \E j \in 1..Len(fk_data) :
         /\ fk_data[j] \cap extractor_variants = {}
         /\ conflicts_of(a, j) = {"variant"}
         /\ best_idxs[a] # j

\* the Flipkart listings consumed before anchor a's turn
used_before(a) == { best_idxs[b] : b \in 1..(a - 1) } \ {0}

\* listing j is still unused at anchor a's turn and no conflict rule is true of (a, j)
eligible(a, j) == j \notin used_before(a) /\ conflicts_of(a, j) = {}

\* one of the four confidence gates holds for the pair (a, j)
some_gate(a, j) ==
    LET kmc == key_match_count(amz_data[a], fk_data[j])
        sem == cosine_scores[a][j]
    IN  \/ kmc >= 3 /\ sem > 50
        \/ kmc >= 2 /\ sem > 60
        \/ \E x \in amz_data[a] \cap fk_data[j] : startswith(x, "model_")
        \/ sem > 78

\* C17: a candidate becomes the running best if and only if its score is strictly
\* greater than the best so far and one of the four gates holds: the accepted listing
\* passes a gate; an eligible candidate that passes a gate makes the anchor accept a
\* listing that scores at least as high; a candidate that fails every gate is never
\* the accepted one; and of two passing candidates with equal scores the later one
\* does not replace the earlier
C17_Gates ==
    \A a \in 1..Len(best_idxs) :
        /\ best_idxs[a] # 0 => (eligible(a, best_idxs[a]) /\ some_gate(a, best_idxs[a]))
        /\ \A j \in 1..Len(fk_data) :
             /\ (eligible(a, j) /\ some_gate(a, j))
                  => (best_idxs[a] # 0 /\ pair_score(a, best_idxs[a]) >= pair_score(a, j))
             /\ (eligible(a, j) /\ ~some_gate(a, j)) => best_idxs[a] # j
             /\ \A l \in 1..(j - 1) :
                  ( /\ eligible(a, j) /\ some_gate(a, j)
                    /\ eligible(a, l) /\ some_gate(a, l)
                    /\ pair_score(a, l) = pair_score(a, j) ) => best_idxs[a] # j

\* C17 happens: one anchor accepted a listing on the first gate alone (three key
\* matches, similarity 0.55), and another examined an eligible candidate with two key
\* matches that fails every gate and was left unmatched
C17_Reached ==
    /\ returned
    /\ \E a \in accepted :
         /\ key_match_count(amz_data[a], fk_data[best_idxs[a]]) = 3
         /\ cosine_scores[a][best_idxs[a]] = 55
         /\ ~model_match(amz_data[a], fk_data[best_idxs[a]])
    /\ \E a \in 1..Len(best_idxs) : \E j \in 1..Len(fk_data) :
         /\ eligible(a, j)
         /\ key_match_count(amz_data[a], fk_data[j]) = 2
         /\ ~some_gate(a, j)
         /\ best_idxs[a] = 0

\* 1 when the signal holds, 0 otherwise
signal(b) == IF b THEN 1 ELSE 0

\* C18: keyMatchCount is the number of these signals that hold for the pair: the
\* identifier sets share a brand tag of the extractor's brand vocabulary, the storage_
\* tag sets are non-empty and equal, the color_ tag sets are non-empty and equal; two
\* listings with a shared brand, equal storage and equal colour have keyMatchCount 3
C18_KeyMatchCount ==
    \A a \in 1..Len(amz_data) : \A j \in 1..Len(fk_data) :
        key_match_count(amz_data[a], fk_data[j])
            = signal(amz_data[a] \cap fk_data[j] \cap brands # {})
              + signal(/\ with_prefix(amz_data[a], "storage_") # {}
                       /\ with_prefix(amz_data[a], "storage_") = with_prefix(fk_data[j], "storage_"))
              + signal(/\ with_prefix(amz_data[a], "color_") # {}
                       /\ with_prefix(amz_data[a], "color_") = with_prefix(fk_data[j], "color_"))

\* the Flipkart listings anchor a may be assigned: unused at its turn, free of
\* conflict, passing a gate
candidates(a) == { j \in 1..Len(fk_data) : eligible(a, j) /\ some_gate(a, j) }

\* semantic + 0.1 x shared identifier tags + 0.5 if a model_ tag is shared, in hundredths
stated_score(a, j) ==
    cosine_scores[a][j]
    + 10 * Cardinality(amz_data[a] \cap fk_data[j])
    + (IF \E x \in amz_data[a] \cap fk_data[j] : startswith(x, "model_") THEN 50 ELSE 0)

\* C19: the anchors are processed in A input order; each is assigned the candidate with
\* the highest score among the listings still unused at its turn that trigger no
\* conflict rule and pass a gate, the earliest in B order winning a tie, and that
\* listing becomes used; with no such listing the anchor's record has no flipkart price
\* and no flipkart link and the used set does not change
C19_GreedyAssignment ==
    /\ Len(best_idxs) <= Len(unified_products)
    /\ used_flipkart = used_before(Len(best_idxs) + 1)
    /\ \A a \in 1..Len(best_idxs) :
         /\ unified_products[a].amazon_link = amazon_products[a].link
         /\ IF candidates(a) = {}
            THEN /\ best_idxs[a] = 0
                 /\ unified_products[a].flipkart_price = None
                 /\ unified_products[a].flipkart_link = ""
                 /\ used_before(a + 1) = used_before(a)
            ELSE /\ best_idxs[a] \in candidates(a)
                 /\ \A j \in candidates(a) :
                      \/ stated_score(a, best_idxs[a]) > stated_score(a, j)
                      \/ stated_score(a, best_idxs[a]) = stated_score(a, j) /\ best_idxs[a] <= j
                 /\ unified_products[a].flipkart_price = flipkart_products[best_idxs[a]].price
                 /\ unified_products[a].flipkart_link = flipkart_products[best_idxs[a]].link
                 /\ used_before(a + 1) = used_before(a) \cup {best_idxs[a]}

\* C19 happens: the first anchor was assigned the second of two candidates because it
\* scores higher, and the second anchor, left with a listing that passes no gate, is
\* unmatched
C19_Reached ==
    /\ returned
    /\ Len(best_idxs) = 2
    /\ best_idxs[1] = 2
    /\ 1 \in candidates(1)
    /\ stated_score(1, 1) < stated_score(1, 2)
    /\ eligible(2, 1)
    /\ candidates(2) = {}
    /\ best_idxs[2] = 0

\* C20: the identifier set of a title holds at most one series_ tag (that of the first
\* pattern of the list that matches); later patterns that also match add no tag
C20_OneSeriesTag ==
    /\ \A a \in 1..Len(amz_data) : Cardinality(with_prefix(amz_data[a], "series_")) <= 1
    /\ \A j \in 1..Len(fk_data) : Cardinality(with_prefix(fk_data[j], "series_")) <= 1

\* the identifier is a size token of the storage block: digits followed by gb or tb
is_size_token(x) ==
    /\ Len(x) >= 3
    /\ endswith(x, "gb") \/ endswith(x, "tb")
    /\ IsAllDigits(SubSeq(x, 1, Len(x) - 2))

\* the size of a token in gigabytes, a terabyte counting as 1024 gigabytes
gigabytes(x) ==
    IF endswith(x, "tb") THEN 1024 * StrToInt(SubSeq(x, 1, Len(x) - 2))
    ELSE StrToInt(SubSeq(x, 1, Len(x) - 2))

\* the titles of the pools in which neither "rom" nor "storage" occurs, so that no
\* size occurrence is explicitly disambiguated as storage
undisambiguated ==
    { t : t \in { u \in AllTitles : ~Contains(lower(u), "rom") /\ ~Contains(lower(u), "storage") } }

\* the identifiers carry a storage_ tag for the largest of their size tokens
largest_is_storage(identifiers) ==
    \A x \in { y \in identifiers : is_size_token(y) } :
        (\A z \in { y \in identifiers : is_size_token(y) } : gigabytes(z) <= gigabytes(x))
            => ("storage_" \o x) \in identifiers

\* C21: every title that has an N(gb|tb) occurrence, none of them explicitly
\* disambiguated as storage, gets a storage_ tag for its numerically largest size
\* occurrence, also when the occurrences lie within 12 characters of the word "ram"
\* (as in "8GB RAM 128GB")
C21_LargestIsStorage ==
    /\ \A a \in 1..Len(amz_data) :
         amazon_products[a].title \in undisambiguated => largest_is_storage(amz_data[a])
    /\ \A j \in 1..Len(fk_data) :
         flipkart_products[j].title \in undisambiguated => largest_is_storage(fk_data[j])

\* the scraper call completed without exception within the timeout and returned a
\* non-empty list
scraper_succeeded == ~timed_out /\ pc = "done" /\ result # <<>>

\* C22: search_with_timeout returns (results, False) only when the scraper call
\* completed without exception within the timeout and returned a non-empty list, and
\* then the results are those of the call; in every other outcome (timeout, exception,
\* empty result) it returns (fallback data, True); it never lets the scraper's
\* exception reach its caller
C22_FallbackOnFailure ==
    api_pc = "returned" =>
        /\ response.kind = "return"
        /\ response.is_fallback = FALSE <=> scraper_succeeded
        /\ scraper_succeeded => response.products = result
        /\ ~scraper_succeeded => response.products \in load_fallback_data

\* C22 happens: the scraper call raised within the timeout and search_with_timeout
\* returned the fallback data
C22_Reached ==
    /\ api_pc = "returned"
    /\ pc = "error"
    /\ ~timed_out
    /\ response.kind = "return"
    /\ response.is_fallback

====
